---- MODULE Spec2Model ----
(***************************************************************************)
(* A model of the wiki application of src/wiki.py: the WikiPage request    *)
(* handler (get, post) and the Page abstraction (load, save,               *)
(* save_to_history, fetch_history, diff_history, load_from_history) over   *)
(* the datastore (Page and PageHistory entities) and memcache.             *)
(*                                                                         *)
(* Requests are served concurrently: a datastore or memcache call of a     *)
(* handler is a step of the request that makes it, and steps of different  *)
(* requests interleave.  The two memcache.delete calls of Page.save are    *)
(* one step.  A datastore.Put either commits or raises, which ends the     *)
(* request.                                                                *)
(***************************************************************************)
EXTENDS Integers, Sequences, FiniteSets, TLC

VARIABLES
  pages,        \* datastore, kind Page: sequence of entities, indexed by key
  history,      \* datastore, kind PageHistory: sequence of entities, indexed by key
  pageCache,    \* memcache, keys 'page_'+name: <<>> (no value) or <<entity>>
  contentCache, \* memcache, keys 'content_'+name: <<>> (no value) or <<content>>
  clock,        \* datetime.datetime.now(): the next reading of the clock
  started,      \* number of requests received so far
  req,          \* per request slot: the handler's position and local variables
  response,     \* the request that finished last: its parameters and its response
  puts,         \* history variable: the Page writes that committed, in order
  log           \* history variable: the saves that returned, in order

vars ==
  <<pages, history, pageCache, contentCache, clock, started, req, response, puts, log>>

----------------------------------------------------------------------------
(* Bounds of the model *)

\* total number of requests the handlers receive in one behaviour
MaxRequests == 3

\* the request slots: requests in different slots are served concurrently
Procs == {1, 2}

\* the character classes of the regular expression, over the model's
\* alphabet: Upper stands for [A-Z0-9], WordChar is \w
Upper == {"A", "B"}
Lower ==
  {"a", "b", "c", "d", "e", "f", "g", "h", "i", "j", "k", "l", "m", "n",
   "o", "p", "q", "r", "s", "t", "u", "v", "w", "x", "y", "z"}
WordChar == Upper \cup Lower \cup {"_"}

\* page names sent by clients: a WikiName, the same with an underscore, not a WikiName
AaBb == <<"A", "a", "B", "b">>
Aa_Bb == <<"A", "a", "_", "B", "b">>
ab == <<"a", "b">>
PageNames == {AaBb, Aa_Bb, ab}

\* request parameters sent by clients
\* (the content, comment and client address of a POST)
Forms ==
  {[content |-> <<"x">>, comment |-> <<"fix">>, remote_addr |-> <<"10.0.0.1">>],
   [content |-> <<"y">>, comment |-> <<"typo">>, remote_addr |-> <<"10.0.0.2">>]}
Users == {"alice"}
NoUser == "None"
ModeInputs == {"view", "edit", "history", "diff", ""}

----------------------------------------------------------------------------
(* Values *)

None == <<>>
Some(x) == <<x>>

NoResp ==
  [status |-> 0, location |-> <<>>, template |-> "", history |-> <<>>,
   diff |-> None, error |-> ""]

NoPage ==
  [name |-> <<>>, entity |-> None, content |-> <<>>, user |-> NoUser,
   created |-> 0, modified |-> 0, remote_addr |-> <<>>, comment |-> <<>>]

Idle ==
  [pc |-> "idle", rid |-> 0, method |-> "", page_name |-> <<>>, mode |-> "",
   v1 |-> 0, v2 |-> 0, content |-> <<>>, comment |-> <<>>,
   remote_addr |-> <<>>, user |-> NoUser, found |-> None, page |-> NoPage,
   resp |-> NoResp, seen |-> 0]

----------------------------------------------------------------------------
(* Pure functions of the source *)

\* _VALID_WIKINAME.match(name): a prefix of name matches
\* ([A-Z0-9])\w+(([A-Z0-9])\w+)+ ; j is where the last group starts
ValidWikiName(name) ==
  /\ Len(name) >= 4
  /\ name[1] \in Upper
  /\ \E j \in 3..(Len(name) - 1) :
       /\ name[j] \in Upper
       /\ \A i \in 1..(j + 1) : name[i] \in WordChar

\* name.count('_')
CountUnderscores(name) == Cardinality({i \in 1..Len(name) : name[i] = "_"})

\* name.replace('_', '')
StripUnderscores(name) == SelectSeq(name, LAMBDA ch : ch # "_")

\* cgi.escape(name)
EscapeChar(ch) ==
  CASE ch = "&" -> "&amp;"
    [] ch = "<" -> "&lt;"
    [] ch = ">" -> "&gt;"
    [] OTHER -> ch

Escape(name) == [i \in 1..Len(name) |-> EscapeChar(name[i])]

\* the content of a new page: '<h1>' + cgi.escape(name) + '</h1>'
DefaultContent(name) == <<"<h1>">> \o Escape(name) \o <<"</h1>">>

\* Page.__init__(name, entity): now is the clock reading used for a new page
PageInit(name, entity, now) ==
  IF entity # None
    THEN [name |-> name, entity |-> entity,
          content |-> entity[1].content,
          user |-> entity[1].user,
          created |-> entity[1].created,
          modified |-> IF "modified" \in DOMAIN entity[1]
                         THEN entity[1].modified ELSE entity[1].created,
          remote_addr |-> <<>>, comment |-> <<>>]
    ELSE [name |-> name, entity |-> None,
          content |-> DefaultContent(name),
          user |-> NoUser, created |-> now, modified |-> now,
          remote_addr |-> <<>>, comment |-> <<>>]

\* Page.view_url
ViewUrl(page) == <<"/">> \o page.name

\* users.CreateLoginURL(uri)
LoginUrl == <<"login">>

\* datastore.Query('Page') with name = n, Get(1): the entities in key order
QueryPage(n) ==
  LET keys == {k \in 1..Len(pages) : pages[k].name = n}
  IN  IF keys = {} THEN <<>>
      ELSE <<pages[CHOOSE k \in keys : \A k2 \in keys : k <= k2]>>


\* datastore.Put(entity) for kind Page: an entity without a key gets the next
\* key, an entity with a key replaces the stored entity of that key
PutPage(entity) ==
  IF entity.key = 0
    THEN Append(pages, [entity EXCEPT !.key = Len(pages) + 1])
    ELSE [pages EXCEPT ![entity.key] = entity]

\* (a variant that keeps one PageHistory entity per page name)
PutHistory_Replace(entity) ==
  LET keys == {k \in 1..Len(history) : history[k].name = entity.name}
  IN  IF keys = {}
        THEN Append(history, [entity EXCEPT !.key = Len(history) + 1])
        ELSE LET k == CHOOSE k \in keys : TRUE
             IN  [history EXCEPT ![k] = [entity EXCEPT !.key = k]]

\* datastore.Put(entity) for kind PageHistory: always a new entity
PutHistory(entity) == Append(history, [entity EXCEPT !.key = Len(history) + 1])

\* the keys of the entities Page.fetch_history can return first: name = n,
\* ordered by 'created' descending (entities of equal 'created' in key order)
NewestHistoryKeys(n) ==
  {k \in 1..Len(history) :
     /\ history[k].name = n
     /\ \A k2 \in 1..Len(history) :
          history[k2].name = n => history[k2].created <= history[k].created}

\* is a listed before b by 'created' descending, then key descending
HistoryBefore(a, b) ==
  \/ a.created > b.created
  \/ a.created = b.created /\ a.key > b.key

\* Page.fetch_history: query.Get(1000), the entities of name n, newest first
FetchHistory(n) ==
  LET keys == {k \in 1..Len(history) : history[k].name = n}
      rank(k) == Cardinality({k2 \in keys : HistoryBefore(history[k2], history[k])})
  IN  [i \in 1..Cardinality(keys) |->
         history[CHOOSE k \in keys : rank(k) = i - 1]]

\* (a variant that looks the key up without the name filter)
LoadFromHistory_AnyName(name, key) ==
  IF key \in 1..Len(history)
    THEN Some(PageInit(name, Some(history[key]), 0))
    ELSE None

\* Page.load_from_history(name, key): None or the Page of the stored entity
LoadFromHistory(name, key) ==
  IF key \in 1..Len(history) /\ history[key].name = name
    THEN Some(PageInit(name, Some(history[key]), 0))
    ELSE None

\* the caption "Edited on %s by %s" of Page.diff_history
DiffCaption(page) == [edited_on |-> page.created, by |-> page.user]

\* Page.diff_history(v1, v2): None, the table, or the AttributeError raised
\* by page.user.nickname() when the entity has no 'user'
DiffHistory(name, v1, v2) ==
  LET page_v1 == LoadFromHistory(name, v1)
      page_v2 == LoadFromHistory(name, v2)
  IN  IF page_v1 = None \/ page_v2 = None
        THEN [outcome |-> "None", table |-> None]
      ELSE IF page_v1[1].user = NoUser \/ page_v2[1].user = NoUser
        THEN [outcome |-> "AttributeError", table |-> None]
      ELSE [outcome |-> "table",
            table |-> Some([v1_desc |-> DiffCaption(page_v1[1]),
                            v2_desc |-> DiffCaption(page_v2[1]),
                            fromlines |-> page_v1[1].content,
                            tolines |-> page_v2[1].content])]

\* what Page.load(name) returns when it runs with no other step in between
LoadResult(name) ==
  IF pageCache[name] # None
    THEN PageInit(name, pageCache[name], clock)
    ELSE LET entities == QueryPage(StripUnderscores(name))
         IN  IF Len(entities) < 1
               THEN PageInit(name, None, clock)
               ELSE PageInit(name, Some(entities[1]), clock)

----------------------------------------------------------------------------
(* The transforms.  A string is the sequence of its characters.            *)

\* the class \w
IsWord(ch) == ch \in WordChar

\* the class [^ \t\n\r<>\(\)&"] of the AutoLink pattern
IsUrlChar(ch) ==
  ch \notin {" ", "\t", "\n", "\r", "<", ">", "(", ")", "&", "\""}

\* content[i:i+len(lit)] == lit
HasAt(s, i, lit) ==
  /\ i >= 1
  /\ i + Len(lit) - 1 <= Len(s)
  /\ \A k \in 1..Len(lit) : s[i + k - 1] = lit[k]

\* a greedy \w+ from i: the end of the longest run of word characters that
\* starts at i (i - 1 when s[i] is not one)
WordRunEnd(s, i) ==
  CHOOSE e \in (i - 1)..Len(s) :
    /\ e = Len(s) \/ ~IsWord(s[e + 1])
    /\ \A k \in i..e : IsWord(s[k])

\* the same for the class of the AutoLink pattern
UrlRunEnd(s, i) ==
  CHOOSE e \in (i - 1)..Len(s) :
    /\ e = Len(s) \/ ~IsUrlChar(s[e + 1])
    /\ \A k \in i..e : IsUrlChar(s[k])

(* _VALID_WIKINAME = ([A-Z0-9])\w+(([A-Z0-9])\w+)+ as finditer uses it *)

\* (a variant whose \w is [A-Za-z0-9], without the underscore)
WikiNameAt_NoUnderscore(s, i) ==
  /\ s[i] \in Upper
  /\ \E j \in (i + 2)..(WordRunEnd(s, i) - 1) :
       /\ s[j] \in Upper
       /\ \A k \in i..(j + 1) : s[k] # "_"

\* a match starts at i: the greedy \w+ of the last group runs to the end of
\* the run of word characters, so that is where every match ends
WikiNameAt(s, i) ==
  /\ s[i] \in Upper
  /\ \E j \in (i + 2)..(WordRunEnd(s, i) - 1) : s[j] \in Upper
WikiNameEnd(s, i) == WordRunEnd(s, i)

\* finditer: the least position from offset on where a match starts
\* (0: there is none)
NextWikiName(s, offset) ==
  IF \E i \in offset..Len(s) : WikiNameAt(s, i)
    THEN CHOOSE i \in offset..Len(s) :
           /\ WikiNameAt(s, i)
           /\ \A i2 \in offset..(i - 1) : ~WikiNameAt(s, i2)
    ELSE 0

(* Page.exists *)

\* memcache.get of a key, memcache.set of a key, on the 'page_' keys
CacheLookup(cache, name) == IF name \in DOMAIN cache THEN cache[name] ELSE None
CacheStore(cache, name, value) ==
  IF name \in DOMAIN cache THEN [cache EXCEPT ![name] = value]
                           ELSE (name :> value) @@ cache

\* Page.exists(name) = Page.load(name).entity, with the cache Page.load leaves
PageExists(cache, name) ==
  LET data == CacheLookup(cache, name)
      entities == QueryPage(StripUnderscores(name))
  IN  IF data # None THEN [entity |-> data, cache |-> cache]
      ELSE IF Len(entities) < 1 THEN [entity |-> None, cache |-> cache]
      ELSE [entity |-> Some(entities[1]),
            cache |-> CacheStore(cache, name, Some(entities[1]))]

(* WikiWords *)

WikiwordOpen ==
  <<"<", "a", " ", "c", "l", "a", "s", "s", "=", "\"", "w", "i", "k", "i",
    "w", "o", "r", "d", "\"", " ", "h", "r", "e", "f", "=", "\"", "/">>
WikiwordNewOpen ==
  <<"<", "a", " ", "t", "i", "t", "l", "e", "=", "\"">>
WikiwordNewTitle ==
  <<" ", "d", "o", "e", "s", " ", "n", "o", "t", " ", "e", "x", "i", "s",
    "t", " ", "y", "e", "t", ".", " ", "C", "l", "i", "c", "k", " ", "t",
    "o", " ", "c", "r", "e", "a", "t", "e", " ", "i", "t", ".", "\"", " ",
    "c", "l", "a", "s", "s", "=", "\"", "w", "i", "k", "i", "w", "o", "r",
    "d", "_", "n", "e", "w", "\"", " ", "h", "r", "e", "f", "=", "\"", "/">>
EditQuery ==
  <<"?", "m", "o", "d", "e", "=", "e", "d", "i", "t">>
TagEnd ==
  <<"\"", ">">>
AnchorClose ==
  <<"<", "/", "a", ">">>

\* WikiWords.replace(match), entity being what Page.exists returned
WikiWordsReplace(wikiword, entity) ==
  IF entity # None
    THEN WikiwordOpen \o wikiword \o TagEnd \o wikiword \o AnchorClose
    ELSE WikiwordNewOpen \o wikiword \o WikiwordNewTitle \o wikiword
           \o EditQuery \o TagEnd \o wikiword \o <<"?">> \o AnchorClose

\* Transform.run of WikiWords from offset on: the text, the 'page_' cache
\* the lookups leave, and the names looked up
RECURSIVE WikiWordsRun(_, _, _)
WikiWordsRun(content, offset, cache) ==
  LET i == NextWikiName(content, offset)
      end == WikiNameEnd(content, i)
      wikiword == SubSeq(content, i, end)
      found == PageExists(cache, wikiword)
      rest == WikiWordsRun(content, end + 1, found.cache)
  IN  IF i = 0
        THEN [out |-> SubSeq(content, offset, Len(content)), cache |-> cache,
              lookups |-> <<>>]
        ELSE [out |-> SubSeq(content, offset, i - 1)
                        \o WikiWordsReplace(wikiword, found.entity) \o rest.out,
              cache |-> rest.cache,
              lookups |-> <<wikiword>> \o rest.lookups]

(* AutoLink *)

HttpScheme ==
  <<"h", "t", "t", "p", ":", "/", "/">>
HttpsScheme ==
  <<"h", "t", "t", "p", "s", ":", "/", "/">>
AutourlOpen ==
  <<"<", "a", " ", "c", "l", "a", "s", "s", "=", "\"", "a", "u", "t", "o",
    "u", "r", "l", "\"", " ", "h", "r", "e", "f", "=", "\"">>

\* where the part of the URL after (http|https):// starts, for a match at i
AutoLinkBody(s, i) ==
  IF HasAt(s, i + 1, HttpScheme) THEN i + 1 + Len(HttpScheme)
                                 ELSE i + 1 + Len(HttpsScheme)

\* where the match that starts at i ends: the last character of the run
\* after the scheme that is not a '.', at least one character into the run
\* (0: there is none)
AutoLinkEnd(s, i) ==
  LET b == AutoLinkBody(s, i)
      ends == {e \in (b + 1)..UrlRunEnd(s, b) : s[e] # "."}
  IN  IF ends = {} THEN 0
      ELSE CHOOSE e \in ends : \A e2 \in ends : e2 <= e

\* ([^"])\b((http|https)://[^ \t\n\r<>\(\)&"]+[^ \t\n\r<>\(\)&"\.])
\* the \b before 'h' holds when the character before it is not of \w
AutoLinkAt(s, i) ==
  /\ s[i] # "\""
  /\ ~IsWord(s[i])
  /\ HasAt(s, i + 1, HttpScheme) \/ HasAt(s, i + 1, HttpsScheme)
  /\ AutoLinkEnd(s, i) # 0

NextAutoLink(s, offset) ==
  IF \E i \in offset..Len(s) : AutoLinkAt(s, i)
    THEN CHOOSE i \in offset..Len(s) :
           /\ AutoLinkAt(s, i)
           /\ \A i2 \in offset..(i - 1) : ~AutoLinkAt(s, i2)
    ELSE 0

\* AutoLink.replace(match)
AutoLinkReplace(group1, url) ==
  <<group1>> \o AutourlOpen \o url \o TagEnd \o url \o AnchorClose

\* Transform.run of AutoLink from offset on
RECURSIVE AutoLinkRun(_, _)
AutoLinkRun(content, offset) ==
  LET i == NextAutoLink(content, offset)
      end == AutoLinkEnd(content, i)
  IN  IF i = 0
        THEN SubSeq(content, offset, Len(content))
        ELSE SubSeq(content, offset, i - 1)
               \o AutoLinkReplace(content[i], SubSeq(content, i + 1, end))
               \o AutoLinkRun(content, end + 1)

(* HideReferers *)

HrefHttp ==
  <<"h", "r", "e", "f", "=", "\"", "h", "t", "t", "p">>
HrefOpen ==
  <<"h", "r", "e", "f", "=", "\"">>
GoogleUrl ==
  <<"h", "t", "t", "p", ":", "/", "/", "w", "w", "w", ".", "g", "o", "o",
    "g", "l", "e", ".", "c", "o", "m", "/", "u", "r", "l", "?", "s", "a",
    "=", "D", "&", "a", "m", "p", ";", "q", "=">>

\* urllib.quote of one character: letters, digits and _ . - / are kept
QuoteChar(ch) ==
  CASE ch = ":" -> <<"%", "3", "A">>
    [] ch = " " -> <<"%", "2", "0">>
    [] ch = "<" -> <<"%", "3", "C">>
    [] ch = ">" -> <<"%", "3", "E">>
    [] ch = "=" -> <<"%", "3", "D">>
    [] ch = "?" -> <<"%", "3", "F">>
    [] ch = "&" -> <<"%", "2", "6">>
    [] ch = ";" -> <<"%", "3", "B">>
    [] ch = "(" -> <<"%", "2", "8">>
    [] ch = ")" -> <<"%", "2", "9">>
    [] OTHER -> <<ch>>

\* urllib.quote(url)
RECURSIVE Quote(_)
Quote(url) == IF url = <<>> THEN <<>> ELSE QuoteChar(Head(url)) \o Quote(Tail(url))

\* the closing quote of href="(http[^"]+)" for a match at i (0: there is none)
HideReferersEnd(s, i) ==
  LET from == i + Len(HrefHttp)
  IN  IF \E q \in (from + 1)..Len(s) : s[q] = "\""
        THEN CHOOSE q \in (from + 1)..Len(s) :
               /\ s[q] = "\""
               /\ \A k \in (from + 1)..(q - 1) : s[k] # "\""
        ELSE 0

\* (a variant whose pattern is href="([^"]+)", any href)
HideReferersAt_AnyHref(s, i) ==
  /\ HasAt(s, i, HrefOpen)
  /\ i + Len(HrefHttp) <= Len(s)
  /\ \A k \in (i + Len(HrefOpen))..(i + Len(HrefHttp)) : s[k] # "\""
  /\ HideReferersEnd(s, i) # 0

\* href="(http[^"]+)"
HideReferersAt(s, i) ==
  /\ HasAt(s, i, HrefHttp)
  /\ i + Len(HrefHttp) <= Len(s)
  /\ s[i + Len(HrefHttp)] # "\""
  /\ HideReferersEnd(s, i) # 0

NextHideReferers(s, offset) ==
  IF \E i \in offset..Len(s) : HideReferersAt(s, i)
    THEN CHOOSE i \in offset..Len(s) :
           /\ HideReferersAt(s, i)
           /\ \A i2 \in offset..(i - 1) : ~HideReferersAt(s, i2)
    ELSE 0

\* HideReferers.replace(match)
HideReferersReplace(url) == HrefOpen \o GoogleUrl \o Quote(url) \o <<"\"">>

\* (a variant that leaves out the text after the last match)
HideReferersRun_NoTail(content, offset) ==
  LET i == NextHideReferers(content, offset)
      end == HideReferersEnd(content, i)
  IN  IF i = 0
        THEN <<>>
        ELSE SubSeq(content, offset, i - 1)
               \o HideReferersReplace(SubSeq(content, i + Len(HrefOpen), end - 1))

\* Transform.run of HideReferers from offset on
RECURSIVE HideReferersRun(_, _)
HideReferersRun(content, offset) ==
  LET i == NextHideReferers(content, offset)
      end == HideReferersEnd(content, i)
  IN  IF i = 0
        THEN SubSeq(content, offset, Len(content))
        ELSE SubSeq(content, offset, i - 1)
               \o HideReferersReplace(SubSeq(content, i + Len(HrefOpen), end - 1))
               \o HideReferersRun(content, end + 1)

(* Page.wikified_content *)

\* the for loop over the transforms: the text after each transform, the
\* 'page_' cache the lookups leave, and the names looked up
Transforms(content, cache) ==
  LET linked == AutoLinkRun(content, 1)
      worded == WikiWordsRun(linked, 1, cache)
  IN  [autolink |-> linked, wikiwords |-> worded.out,
       content |-> HideReferersRun(worded.out, 1),
       cache |-> worded.cache, lookups |-> worded.lookups]

----------------------------------------------------------------------------
(* State *)

Init ==
  /\ pages = <<>>
  /\ history = <<>>
  /\ pageCache = [n \in PageNames |-> None]
  /\ contentCache = [n \in PageNames |-> None]
  /\ clock = 1
  /\ started = 0
  /\ req = [p \in Procs |-> Idle]
  /\ response = Idle
  /\ puts = <<>>
  /\ log = <<>>

\* a request is served in the first free slot
Free(p) == req[p].pc = "idle" /\ \A q \in Procs : (q < p) => req[q].pc # "idle"

\* where Page.load returns to
AfterLoad(r) == IF r.method = "GET" THEN "render" ELSE "put"

\* the handler returns or raises: what is left of the request is its
\* parameters and its response
Return(r, pc, resp) ==
  [r EXCEPT !.pc = pc, !.resp = resp, !.found = None, !.page = NoPage]

----------------------------------------------------------------------------
(* Page.load *)

\* data = memcache.get('page_'+name), for the request r that calls Page.load
CacheGet(r) ==
  LET data == pageCache[r.page_name]
  IN  IF data # None
        THEN [r EXCEPT !.page = PageInit(r.page_name, data, clock),
                       !.pc = AfterLoad(r)]
        ELSE [r EXCEPT !.pc = "query"]

\* (a variant that stores the new page it synthesizes)
LoadQuery_Creates(p) ==
  /\ req[p].pc = "query"
  /\ LET entities == QueryPage(StripUnderscores(req[p].page_name))
         page == PageInit(req[p].page_name, None, clock)
     IN  IF Len(entities) < 1
           THEN /\ req' = [req EXCEPT ![p].page = page, ![p].pc = AfterLoad(req[p])]
                /\ pages' = PutPage([key |-> 0, name |-> page.name,
                                     created |-> clock, content |-> page.content,
                                     modified |-> clock, user |-> NoUser])
                /\ clock' = clock + 1
           ELSE /\ req' = [req EXCEPT ![p].found = Some(entities[1]),
                                      ![p].pc = "cache_set"]
                /\ pages' = pages
                /\ clock' = clock
  /\ UNCHANGED <<history, pageCache, contentCache, started, response, puts, log>>

\* entities = query.Get(1)
LoadQuery(p) ==
  /\ req[p].pc = "query"
  /\ LET entities == QueryPage(StripUnderscores(req[p].page_name))
     IN  IF Len(entities) < 1
           THEN /\ req' = [req EXCEPT ![p].page = PageInit(req[p].page_name, None, clock),
                                      ![p].pc = AfterLoad(req[p])]
                /\ clock' = clock + 1
           ELSE /\ req' = [req EXCEPT ![p].found = Some(entities[1]),
                                      ![p].pc = "cache_set"]
                /\ clock' = clock
  /\ UNCHANGED <<pages, history, pageCache, contentCache, started, response, puts, log>>

\* memcache.set('page_'+name, entities[0])
LoadCacheSet(p) ==
  /\ req[p].pc = "cache_set"
  /\ pageCache' = [pageCache EXCEPT ![req[p].page_name] = req[p].found]
  /\ req' = [req EXCEPT ![p].page = PageInit(req[p].page_name, req[p].found, clock),
                        ![p].pc = AfterLoad(req[p])]
  /\ UNCHANGED <<pages, history, contentCache, clock, started, response, puts, log>>

----------------------------------------------------------------------------
(* WikiPage.get, up to the memcache.get of Page.load.  A request parameter *)
(* is drawn where the handler reads it.                                    *)

Get(p) ==
  /\ Free(p)
  /\ started < MaxRequests
  /\ \E page_name \in PageNames :
       LET r == [Idle EXCEPT !.rid = started + 1, !.method = "GET",
                             !.page_name = page_name]
           \* self.redirect(...) of a name with underscores does not return
           r1 == IF CountUnderscores(page_name) > 0
                   THEN [r EXCEPT !.resp = [NoResp EXCEPT
                            !.status = 301,
                            !.location = <<"/">> \o StripUnderscores(page_name)]]
                   ELSE r
       IN  IF ~ValidWikiName(page_name)
             THEN /\ response' = Return(r, "done", [NoResp EXCEPT !.status = 404,
                                                                  !.template = "404.html"])
                  /\ req' = req
             ELSE /\ req' = [req EXCEPT ![p] = CacheGet(r1)]
                  /\ response' = response
  /\ started' = started + 1
  /\ UNCHANGED <<pages, history, pageCache, contentCache, clock, puts, log>>

(* WikiPage.post, up to the memcache.get of Page.load *)

\* (a variant without the login check of lines 140-144)
Post_NoLoginCheck(p) ==
  /\ Free(p)
  /\ started < MaxRequests
  /\ \E page_name \in PageNames, user \in Users \cup {NoUser} :
       LET r == [Idle EXCEPT !.rid = started + 1, !.method = "POST",
                             !.page_name = page_name, !.user = user,
                             !.seen = Len(log)]
       IN  /\ req' = [req EXCEPT ![p] = CacheGet(r)]
           /\ response' = response
  /\ started' = started + 1
  /\ UNCHANGED <<pages, history, pageCache, contentCache, clock, puts, log>>

Post(p) ==
  /\ Free(p)
  /\ started < MaxRequests
  /\ \E page_name \in PageNames, user \in Users \cup {NoUser} :
       LET r == [Idle EXCEPT !.rid = started + 1, !.method = "POST",
                             !.page_name = page_name, !.user = user,
                             !.seen = Len(log)]
           \* self.redirect('/') of an invalid name does not return
           r1 == IF ~ValidWikiName(page_name)
                   THEN [r EXCEPT !.resp = [NoResp EXCEPT !.status = 302,
                                                          !.location = <<"/">>]]
                   ELSE r
       IN  IF user = NoUser
             THEN /\ response' = Return(r1, "done", [NoResp EXCEPT !.status = 302,
                                                                   !.location = LoginUrl])
                  /\ req' = req
             ELSE /\ req' = [req EXCEPT ![p] = CacheGet(r1)]
                  /\ response' = response
  /\ started' = started + 1
  /\ UNCHANGED <<pages, history, pageCache, contentCache, clock, puts, log>>

----------------------------------------------------------------------------
(* WikiPage.get, after Page.load: the mode, the login redirect, the template *)

\* the mode of the request: mode is what self.request.get('mode') returns
GetMode(page, mode) ==
  IF page.entity = None THEN "edit"
  ELSE IF mode \in {"view", "edit", "history", "diff"} THEN mode
  ELSE "view"

\* self.generate(template, values) on the response as it stands
Generate(resp, template) ==
  [resp EXCEPT !.status = IF resp.status = 0 THEN 200 ELSE resp.status,
               !.template = template]

\* the rest of get for a request of these parameters
Render(r, mode_input, user, v1, v2) ==
  LET mode == GetMode(r.page, mode_input)
      page == r.page
      diff == DiffHistory(page.name, v1, v2)
      r1 == [r EXCEPT !.mode = mode_input, !.user = user, !.v1 = v1, !.v2 = v2]
  IN  IF mode = "edit" /\ user = NoUser
        THEN Return(r1, "done", [r.resp EXCEPT !.status = 302, !.location = LoginUrl])
      ELSE IF mode = "history"
        THEN Return(r1, "done", [Generate(r.resp, "history.html")
                                   EXCEPT !.history = FetchHistory(page.name)])
      ELSE IF mode = "diff"
        THEN IF diff.outcome = "AttributeError"
               THEN Return(r1, "failed", [r.resp EXCEPT !.status = 500,
                                                        !.error = "AttributeError"])
               ELSE Return(r1, "done", [Generate(r.resp, "diff.html")
                                          EXCEPT !.diff = diff.table])
      ELSE Return(r1, "done", Generate(r.resp, IF mode = "edit" THEN "edit.html"
                                                                ELSE "view.html"))

GetRender(p) ==
  /\ req[p].pc = "render"
  /\ \E mode_input \in ModeInputs, user \in Users \cup {NoUser} :
     \E v1, v2 \in 0..(Len(history) + 1) :
       LET mode == GetMode(req[p].page, mode_input)
       IN  \* a parameter the handler does not read is left as it is
           /\ req[p].page.entity = None => mode_input = ""
           /\ mode # "edit" => user = NoUser
           /\ IF mode = "diff" THEN v1 > 0 /\ v2 > 0 ELSE v1 = 0 /\ v2 = 0
           /\ response' = Render(req[p], mode_input, user, v1, v2)
  /\ req' = [req EXCEPT ![p] = Idle]
  /\ UNCHANGED <<pages, history, pageCache, contentCache, clock, started, puts, log>>

----------------------------------------------------------------------------
(* WikiPage.post, after Page.load, and Page.save *)

\* the Page object after lines 148-150 of post
PostedPage(page, content, remote_addr, comment) ==
  [page EXCEPT !.content = content, !.remote_addr = remote_addr,
               !.comment = comment]

\* the entity Page.save hands to datastore.Put, at clock reading now
SaveEntity(page, user, now) ==
  LET entity == IF page.entity # None
                  THEN page.entity[1]
                  ELSE [key |-> 0, name |-> page.name, created |-> now,
                        content |-> <<>>, modified |-> 0, user |-> NoUser]
  IN  \* entity['user'] is set to the current user, or deleted when there is none
      [entity EXCEPT !.content = page.content, !.modified = now, !.user = user]

\* the request that has loaded the same page name and not yet written it
Overlapping(p) ==
  LET qs == {q \in Procs \ {p} : /\ req[q].pc = "put"
                                 /\ req[q].page_name = req[p].page_name}
  IN  IF qs = {} THEN 0 ELSE req[CHOOSE q \in qs : TRUE].rid

\* datastore.Put(entity) of Page.save commits
SavePut(p) ==
  /\ req[p].pc = "put"
  /\ \E form \in Forms :
       LET page == PostedPage(req[p].page, form.content, form.remote_addr, form.comment)
       IN  /\ pages' = PutPage(SaveEntity(page, req[p].user, clock))
           /\ req' = [req EXCEPT ![p].content = form.content,
                                 ![p].remote_addr = form.remote_addr,
                                 ![p].comment = form.comment,
                                 ![p].page = page, ![p].pc = "delete"]
           /\ puts' = Append(puts, [rid |-> req[p].rid, name |-> page.name,
                                    content |-> page.content,
                                    overlap |-> Overlapping(p)])
  /\ clock' = clock + 1
  /\ UNCHANGED <<history, pageCache, contentCache, started, response, log>>

\* datastore.Put(entity) of Page.save raises
SavePutFails(p) ==
  /\ req[p].pc = "put"
  /\ \E form \in Forms :
       response' = Return([req[p] EXCEPT !.content = form.content,
                                         !.remote_addr = form.remote_addr,
                                         !.comment = form.comment],
                          "failed",
                          [req[p].resp EXCEPT !.status = 500,
                                              !.error = "datastore_errors.Error"])
  /\ req' = [req EXCEPT ![p] = Idle]
  /\ clock' = clock + 1
  /\ UNCHANGED <<pages, history, pageCache, contentCache, started, puts, log>>

\* memcache.delete('page_'+self.name); memcache.delete('content_'+self.name)
SaveDelete(p) ==
  /\ req[p].pc = "delete"
  /\ pageCache' = [pageCache EXCEPT ![req[p].page.name] = None]
  /\ contentCache' = [contentCache EXCEPT ![req[p].page.name] = None]
  /\ req' = [req EXCEPT ![p].pc = "history"]
  /\ UNCHANGED <<pages, history, clock, started, response, puts, log>>

\* (a variant that snapshots the content the page was loaded with)
HistoryEntity_Loaded(page, user) ==
  [key |-> 0, name |-> page.name, created |-> page.modified,
   content |-> IF page.entity # None THEN page.entity[1].content ELSE page.content,
   remote_addr |-> page.remote_addr,
   comment |-> page.comment, user |-> user]

\* the entity Page.save_to_history hands to datastore.Put
HistoryEntity(page, user) ==
  [key |-> 0, name |-> page.name, created |-> page.modified,
   content |-> page.content, remote_addr |-> page.remote_addr,
   comment |-> page.comment, user |-> user]

\* datastore.Put(entity) of Page.save_to_history commits; post redirects to the view
SaveToHistory(p) ==
  /\ req[p].pc = "history"
  /\ history' = PutHistory(HistoryEntity(req[p].page, req[p].user))
  /\ response' = Return(req[p], "done",
                        [req[p].resp EXCEPT !.status = 302,
                                            !.location = ViewUrl(req[p].page)])
  /\ req' = [req EXCEPT ![p] = Idle]
  /\ log' = Append(log, [rid |-> req[p].rid, name |-> req[p].page_name,
                         content |-> req[p].content,
                         remote_addr |-> req[p].remote_addr,
                         comment |-> req[p].comment, user |-> req[p].user,
                         seen |-> req[p].seen])
  /\ UNCHANGED <<pages, pageCache, contentCache, clock, started, puts>>

\* datastore.Put(entity) of Page.save_to_history raises
SaveToHistoryFails(p) ==
  /\ req[p].pc = "history"
  /\ response' = Return(req[p], "failed",
                        [req[p].resp EXCEPT !.status = 500,
                                            !.error = "datastore_errors.Error"])
  /\ req' = [req EXCEPT ![p] = Idle]
  /\ UNCHANGED <<pages, history, pageCache, contentCache, clock, started, puts, log>>

----------------------------------------------------------------------------
(* memcache drops a value on its own *)

MemcacheEvict(n) ==
  /\ pageCache[n] # None
  /\ pageCache' = [pageCache EXCEPT ![n] = None]
  /\ UNCHANGED <<pages, history, contentCache, clock, started, req, response, puts, log>>

----------------------------------------------------------------------------

Next ==
  \/ \E p \in Procs : Get(p)
  \/ \E p \in Procs : Post(p)
  \/ \E p \in Procs : LoadQuery(p)
  \/ \E p \in Procs : LoadCacheSet(p)
  \/ \E p \in Procs : GetRender(p)
  \/ \E p \in Procs : SavePut(p)
  \/ \E p \in Procs : SavePutFails(p)
  \/ \E p \in Procs : SaveDelete(p)
  \/ \E p \in Procs : SaveToHistory(p)
  \/ \E p \in Procs : SaveToHistoryFails(p)
  \/ \E n \in PageNames : MemcacheEvict(n)

Spec == Init /\ [][Next]_vars

----------------------------------------------------------------------------
(* The methods of Page called one at a time, as a caller other than the    *)
(* two handlers may call them: Page.save does not ask for a logged-in user *)
(* (lines 232-235, 253-254), only WikiPage.post does.                      *)

\* the number of Page.save calls in one behaviour
MaxSaves == 2

\* page = Page.load(name); page.content = ...; page.save(), with both
\* datastore.Put committing; user is what users.GetCurrentUser() returns
PageSave ==
  /\ Len(history) < MaxSaves
  /\ \E name \in PageNames, form \in Forms, user \in Users \cup {NoUser} :
       LET page == PostedPage(LoadResult(name), form.content,
                              form.remote_addr, form.comment)
           \* the clock reading of Page.save, after that of Page.load
           now == clock + 1
       IN  /\ pages' = PutPage(SaveEntity(page, user, now))
           /\ history' = PutHistory(HistoryEntity(page, user))
           \* memcache.set of Page.load, then memcache.delete of Page.save
           /\ pageCache' = [pageCache EXCEPT ![name] = None]
           /\ contentCache' = [contentCache EXCEPT ![name] = None]
           /\ response' = [Idle EXCEPT !.pc = "done", !.method = "save",
                                       !.page_name = name, !.user = user,
                                       !.content = form.content,
                                       !.comment = form.comment,
                                       !.remote_addr = form.remote_addr]
  /\ clock' = clock + 2
  /\ UNCHANGED <<started, req, puts, log>>

\* page.diff_history(v1, v2) on the Page of this name
PageDiffHistory ==
  /\ \E name \in PageNames :
     \E v1, v2 \in 1..(Len(history) + 1) :
       LET diff == DiffHistory(name, v1, v2)
           r == [Idle EXCEPT !.method = "diff_history", !.page_name = name,
                             !.v1 = v1, !.v2 = v2]
       IN  response' =
             IF diff.outcome = "AttributeError"
               THEN [r EXCEPT !.pc = "failed", !.resp.error = "AttributeError"]
               ELSE [r EXCEPT !.pc = "done", !.resp.diff = diff.table]
  /\ UNCHANGED <<pages, history, pageCache, contentCache, clock, started, req,
                 puts, log>>

NextPage ==
  \/ PageSave
  \/ PageDiffHistory

SpecPage == Init /\ [][NextPage]_vars

----------------------------------------------------------------------------
(* Page.wikified_content called on a Page of any content, over a store and *)
(* a 'page_' cache that saves and loads leave.                             *)

\* the number of pieces a content is made of
MaxPieces == 3

\* the pieces: two names the WikiName pattern matches, a space, a full
\* stop, a bare URL, an href attribute of an anchor
BareUrl ==
  <<"h", "t", "t", "p", ":", "/", "/", "a", "b">>
HrefAttribute ==
  <<"h", "r", "e", "f", "=", "\"", "h", "t", "t", "p", ":", "/", "/", "a",
    "b", "\"">>
Pieces == {AaBb, Aa_Bb, <<" ">>, <<".">>, BareUrl, HrefAttribute}

\* the contents of at most n pieces
RECURSIVE ContentsOf(_)
ContentsOf(n) ==
  IF n = 0 THEN {<<>>}
  ELSE LET shorter == ContentsOf(n - 1)
       IN  shorter \cup {c \o piece : c \in shorter, piece \in Pieces}

Contents == ContentsOf(MaxPieces)

\* the store after one save of each of these names, in this order
StoreOf(names) ==
  [k \in 1..Len(names) |->
     [key |-> k, name |-> names[k], created |-> k, content |-> <<"x">>,
      modified |-> k, user |-> "alice"]]

RenderStores ==
  {StoreOf(<<>>), StoreOf(<<AaBb>>), StoreOf(<<Aa_Bb>>), StoreOf(<<ab>>),
   StoreOf(<<AaBb, Aa_Bb>>), StoreOf(<<Aa_Bb, AaBb, ab>>)}

InitRender ==
  /\ pages \in RenderStores
  /\ history = <<>>
  /\ pageCache = [n \in PageNames |-> None]
  /\ contentCache = [n \in PageNames |-> None]
  /\ clock = 1
  /\ started = 0
  /\ req = [p \in Procs |-> Idle]
  /\ response = Idle
  /\ puts = <<>>
  /\ log = <<>>

\* Page.load(name) by any caller: the 'page_' cache it leaves
PageLoad ==
  /\ \E name \in PageNames :
       pageCache' = PageExists(pageCache, name).cache
  /\ pageCache' # pageCache
  /\ response' = Idle
  /\ UNCHANGED <<pages, history, contentCache, clock, started, req, puts, log>>

\* (a variant that stores what it computed)
WikifiedContentCache_Stores(name, content) ==
  [contentCache EXCEPT ![name] = Some(content)]

\* the 'content_' cache Page.wikified_content leaves: it stores nothing
\* (line 216 is commented out)
WikifiedContentCache(name, content) == contentCache

\* page.wikified_content() of a Page of this name and content, once the
\* answer to the call before it has been taken
PageWikifiedContent ==
  /\ response.pc = "idle"
  /\ \E name \in PageNames, content \in Contents :
       LET data == contentCache[name]
           done == Transforms(content, pageCache)
       IN  IF data # None
             THEN /\ response' = [pc |-> "done", method |-> "wikified_content",
                                  page_name |-> name, content |-> content,
                                  cached |-> TRUE, autolink |-> <<>>,
                                  wikiwords |-> <<>>, lookups |-> <<>>,
                                  returned |-> data[1]]
                  /\ UNCHANGED <<pageCache, contentCache>>
             ELSE /\ response' = [pc |-> "done", method |-> "wikified_content",
                                  page_name |-> name, content |-> content,
                                  cached |-> FALSE, autolink |-> done.autolink,
                                  wikiwords |-> done.wikiwords,
                                  lookups |-> done.lookups,
                                  returned |-> done.content]
                  /\ pageCache' = done.cache
                  /\ contentCache' = WikifiedContentCache(name, done.content)
  /\ UNCHANGED <<pages, history, clock, started, req, puts, log>>

NextRender ==
  \/ PageLoad
  \/ PageWikifiedContent

SpecRender == InitRender /\ [][NextRender]_vars

----------------------------------------------------------------------------
(* Notions the properties share *)

\* the Page entity the store holds for page name n, as Page.load queries it
Stored(n) == QueryPage(StripUnderscores(n))

\* a save of page name n is under way: a POST between its Page.load and its return
Saving(n) ==
  \E p \in Procs : /\ req[p].method = "POST"
                   /\ StripUnderscores(req[p].page_name) = StripUnderscores(n)

\* a page name the handlers accept and do not rewrite
CleanName(n) == ValidWikiName(n) /\ CountUnderscores(n) = 0

\* every Page write so far belongs to a save that returned, and every save
\* was made under a valid name without underscores
AllSavesWhole ==
  /\ Len(puts) = Len(log)
  /\ \A i \in 1..Len(puts) : CleanName(puts[i].name)

\* the history entities of page name n
HistoryKeys(n) == {k \in 1..Len(history) : history[k].name = n}

\* C1: whenever a page exists and no save of it is under way, an entry that
\* fetch_history lists first for it (greatest 'created') has the content of
\* the stored Page entity.  Stated for runs in which every save returned and
\* used a valid name without underscores.
C1_NewestHistoryIsCurrent ==
  \A n \in PageNames :
    (AllSavesWhole /\ CleanName(n) /\ Stored(n) # <<>> /\ ~Saving(n))
      => \E k \in NewestHistoryKeys(n) : history[k].content = Stored(n)[1].content

\* C2: after save(c1) returned and then save(c2) ran and returned on the same
\* page name, with no other writer, the history of the name has at least two
\* entries, the newest has content c2, and Page.load returns content c2.
\* Stated for valid names without underscores.
C2_SecondSaveIsCurrent ==
  (/\ AllSavesWhole
   /\ Len(log) = 2
   /\ log[1].name = log[2].name
   /\ log[2].seen = 1
   /\ ~Saving(log[2].name))
    => /\ Cardinality(HistoryKeys(log[2].name)) >= 2
       /\ \A k \in NewestHistoryKeys(log[2].name) : history[k].content = log[2].content
       /\ LoadResult(log[2].name).content = log[2].content

\* the Page write, the history write of request rid committed
WrotePage(rid) == \E i \in 1..Len(puts) : puts[i].rid = rid
WroteHistory(rid) == \E i \in 1..Len(log) : log[i].rid = rid

\* C3: a save that has finished, returned or failed, has written both the
\* Page entity and its history entry, or neither.
C3_NoPartialSave ==
  response.method = "POST" => (WrotePage(response.rid) <=> WroteHistory(response.rid))

\* C4: once no save of a page name is under way, the 'page_' cache holds no
\* entity whose content differs from the stored Page entity it is a copy of.
\* Stated for runs in which every save returned and used a name without
\* underscores.
C4_CacheNeverStale ==
  \A n \in PageNames :
    (AllSavesWhole /\ CleanName(n) /\ ~Saving(n) /\ pageCache[n] # None)
      => pageCache[n][1].content = pages[pageCache[n][1].key].content


\* C5: no step modifies or removes a stored PageHistory entity: the history
\* only grows and every stored entity keeps its field values.
C5_HistoryAppendOnly ==
  [][/\ Len(history') >= Len(history)
     /\ \A k \in 1..Len(history) : history'[k] = history[k]]_vars

\* a GET listed a history of two entries: two saves of one page name returned
C5_Witness ==
  /\ response.method = "GET"
  /\ response.pc = "done"
  /\ Len(response.resp.history) >= 2

\* C6: the history entities are, one for one and in order, the saves that
\* returned: each carries the page name, content, client address, comment and
\* user of its save, so a page has as many history entities as returned saves.
C6_OneEntryPerSave ==
  /\ Len(history) = Len(log)
  /\ \A i \in 1..Len(log) :
       /\ history[i].name = log[i].name
       /\ history[i].content = log[i].content
       /\ history[i].remote_addr = log[i].remote_addr
       /\ history[i].comment = log[i].comment
       /\ history[i].user = log[i].user
  /\ \A n \in PageNames :
       Cardinality(HistoryKeys(n)) = Cardinality({i \in 1..Len(log) : log[i].name = n})

\* two saves of one page name returned, with different contents
C6_Witness ==
  /\ Len(log) >= 2
  /\ log[1].name = log[2].name
  /\ log[1].content # log[2].content
  /\ Cardinality(HistoryKeys(log[1].name)) >= 2

\* the last save of page name n that returned
LatestSave(n) ==
  log[CHOOSE i \in 1..Len(log) :
        /\ log[i].name = n
        /\ \A j \in 1..Len(log) : log[j].name = n => j <= i]

\* C7: once a save of a valid page name n has returned, and while no save of it
\* is under way, Page.load(n) returns a Page with a stored entity whose content
\* is that of the latest save.
C7_PresentForever ==
  \A n \in PageNames :
    (/\ ValidWikiName(n)
     /\ \E i \in 1..Len(log) : log[i].name = n
     /\ ~Saving(n))
      => /\ LoadResult(n).entity # None
         /\ LoadResult(n).content = LatestSave(n).content

\* C8: when two saves of one page name have both loaded the page before either
\* wrote it, and both have returned, Page.load returns the content of the save
\* whose Page write committed last.  Stated for runs in which every save
\* returned and used a valid name without underscores.
C8_LastWriterWins ==
  \A i, j \in 1..Len(puts) :
    (/\ AllSavesWhole
     /\ i < j /\ j = Len(puts)
     /\ puts[i].overlap = puts[j].rid
     /\ puts[i].name = puts[j].name
     /\ ~Saving(puts[j].name))
      => LoadResult(puts[j].name).content = puts[j].content

\* the step is one of a GET request: it moves a GET on, or finishes one
GetStep ==
  \/ \E p \in Procs : req'[p] # req[p] /\ req'[p].method = "GET"
  \/ response' # response /\ response'.method = "GET"

\* C9: a step of a GET request leaves the Page and PageHistory entities as
\* they are, so no page becomes Present or Absent by it, and a load of an
\* absent page hands the handler a Page of the default content.
C9_GetIsPureReader ==
  [][GetStep
       => /\ pages' = pages
          /\ history' = history
          /\ \A n \in PageNames : (Stored(n) = <<>>)' = (Stored(n) = <<>>)
          /\ \A p \in Procs :
               (req'[p].pc = "render" /\ req'[p].page.entity = None)
                 => req'[p].page.content = DefaultContent(req'[p].page_name)]_vars

\* a GET in diff mode returned a table while another GET holds the Page that
\* Page.load made for an absent page
C9_Witness ==
  /\ response.method = "GET" /\ response.pc = "done" /\ response.resp.diff # None
  /\ \E q \in Procs :
       req[q].method = "GET" /\ req[q].pc = "render" /\ req[q].page.entity = None

\* identifier v is the key of a stored history entity of page name n
Resolves(n, v) == v \in 1..Len(history) /\ history[v].name = n

\* C10: diff_history returns None, and does not fail, whenever one of the two
\* identifiers is not the key of a stored history entity of the page name; a
\* GET in diff mode with such an identifier ends with the diff template and
\* no table.
C10_DiffNotFound ==
  /\ \A n \in PageNames : \A v1, v2 \in 1..(Len(history) + 1) :
       (~Resolves(n, v1) \/ ~Resolves(n, v2))
         => DiffHistory(n, v1, v2).outcome = "None"
  /\ (/\ response.method = "GET" /\ response.v1 > 0
      /\ (\/ ~Resolves(response.page_name, response.v1)
          \/ ~Resolves(response.page_name, response.v2)))
       => /\ response.pc = "done"
          /\ response.resp.template = "diff.html"
          /\ response.resp.diff = None

\* a GET in diff mode named a history entity of another page and one of its own
C10_Witness ==
  /\ response.method = "GET" /\ response.pc = "done" /\ response.v1 > 0
  /\ response.v1 <= Len(history)
  /\ history[response.v1].name # response.page_name
  /\ Resolves(response.page_name, response.v2)
  /\ response.resp.diff = None

----------------------------------------------------------------------------
\* C11: for any two stored history entries of a page, diff_history returns
\* the table, the left column captioned with entry v1 and the right column
\* with entry v2, also when an entry has no author.
C11_DiffOfAnyTwoEntries ==
  (/\ response.method = "diff_history"
   /\ Resolves(response.page_name, response.v1)
   /\ Resolves(response.page_name, response.v2))
    => /\ response.pc = "done"
       /\ response.resp.diff # None
       /\ response.resp.diff[1].v1_desc = [edited_on |-> history[response.v1].created,
                                           by |-> history[response.v1].user]
       /\ response.resp.diff[1].v2_desc = [edited_on |-> history[response.v2].created,
                                           by |-> history[response.v2].user]

----------------------------------------------------------------------------
\* a Page entity of exactly this name is stored
Persisted(w) == \E k \in 1..Len(pages) : pages[k].name = w

\* what WikiWords.replace emits for the token w in the current state
Emitted(w) == WikiWordsReplace(w, PageExists(pageCache, w).entity)

\* C12: for every token w the WikiName pattern matches, the WikiWords rewrite
\* emits the anchor of class wikiword and href /w exactly when a Page entity
\* named w is stored, and otherwise the anchor of class wikiword_new and href
\* /w?mode=edit.
C12_KnownIffPersisted ==
  \A w \in PageNames :
    WikiNameAt(w, 1) /\ WikiNameEnd(w, 1) = Len(w)
      => Emitted(w) = WikiWordsReplace(w, IF Persisted(w) THEN Some(w) ELSE None)

----------------------------------------------------------------------------
\* none of the three patterns has a match in the content
Unmatched(content) ==
  /\ NextAutoLink(content, 1) = 0
  /\ NextWikiName(content, 1) = 0
  /\ NextHideReferers(content, 1) = 0

\* C13: for a content, the empty one included, in which none of the three
\* patterns has a match, wikified_content returns the content unchanged and
\* makes no existence lookup.
C13_IdentityWithoutMatches ==
  (response.method = "wikified_content" /\ Unmatched(response.content))
    => /\ response.returned = response.content
       /\ response.lookups = <<>>

\* wikified_content has returned a content of several characters, none of
\* them part of a match, as it was
C13_Witness ==
  /\ response.method = "wikified_content"
  /\ Len(response.content) >= 2
  /\ Unmatched(response.content)
  /\ response.returned = response.content

----------------------------------------------------------------------------
\* the least position from offset on where href="/ starts (0: there is none)
NextRelativeHref(s, offset) ==
  IF \E i \in offset..Len(s) : HasAt(s, i, HrefOpen \o <<"/">>)
    THEN CHOOSE i \in offset..Len(s) :
           /\ HasAt(s, i, HrefOpen \o <<"/">>)
           /\ \A i2 \in offset..(i - 1) : ~HasAt(s, i2, HrefOpen \o <<"/">>)
    ELSE 0

\* the values of the relative href attributes of a text, in order: each runs
\* from the / to the next quote
RECURSIVE RelativeHrefs(_, _)
RelativeHrefs(s, offset) ==
  LET i == NextRelativeHref(s, offset)
      from == i + Len(HrefOpen)
      close == CHOOSE q \in from..(Len(s) + 1) :
                 /\ q = Len(s) + 1 \/ s[q] = "\""
                 /\ \A k \in from..(q - 1) : s[k] # "\""
  IN  IF i = 0 THEN <<>>
      ELSE <<SubSeq(s, from, close - 1)>> \o RelativeHrefs(s, close + 1)

\* C14: every anchor the WikiWords stage generates has the relative href
\* /PageName or /PageName?mode=edit of the token it was made for, and the
\* HideReferers stage leaves every relative href as it was emitted.
C14_RelativeHrefsKept ==
  response.method = "wikified_content"
    => LET emitted == RelativeHrefs(response.wikiwords, 1)
       IN  /\ Len(emitted) = Len(response.lookups)
           /\ \A k \in 1..Len(emitted) :
                emitted[k] \in {<<"/">> \o response.lookups[k],
                                <<"/">> \o response.lookups[k] \o EditQuery}
           /\ RelativeHrefs(response.returned, 1) = emitted

\* a content with a bare URL and a WikiWord has been rendered: AutoLink
\* linked the URL, WikiWords made an anchor and HideReferers rewrote an href
C14_Witness ==
  /\ response.method = "wikified_content"
  /\ response.autolink # response.content
  /\ response.lookups # <<>>
  /\ response.returned # response.wikiwords
  /\ RelativeHrefs(response.returned, 1) = RelativeHrefs(response.wikiwords, 1)

----------------------------------------------------------------------------
----------------------------------------------------------------------------

\* C16: page names that differ only in underscores are one page on the write
\* path and on the read path: after the first save of the run has returned
\* under a valid name n, with no request under way, Page.load under every name
\* that differs from n only in underscores (n itself included) returns the
\* saved content.
C16_SameNameOnReadAndWrite ==
  \A n, m \in PageNames :
    (/\ Len(log) = 1 /\ Len(puts) = 1
     /\ \A p \in Procs : req[p].pc = "idle"
     /\ log[1].name = n
     /\ ValidWikiName(n)
     /\ StripUnderscores(m) = StripUnderscores(n))
      => LoadResult(m).content = log[1].content

----------------------------------------------------------------------------

\* C17: no value is ever stored under a 'content_' cache key, so no
\* wikified_content call is answered from that cache: each returns the
\* pipeline's result for the content of its Page and the pages that exist.
C17_ContentCacheStaysEmpty ==
  /\ \A n \in PageNames : contentCache[n] = None
  /\ response.method = "wikified_content"
       => /\ ~response.cached
          /\ response.returned = Transforms(response.content, pageCache).content

\* a call returned a text the pipeline changed, after looking a page up
C17_Witness ==
  /\ response.method = "wikified_content"
  /\ response.lookups # <<>>
  /\ response.returned # response.content
  /\ \A n \in PageNames : contentCache[n] = None

----------------------------------------------------------------------------

\* C18: the store never holds two Page entities of one page name, also when
\* two saves of a page that does not exist yet interleave.
C18_OnePagePerName ==
  \A i, j \in 1..Len(pages) : pages[i].name = pages[j].name => i = j

----------------------------------------------------------------------------

\* C19: a POST whose page name the pattern does not match writes no Page
\* entity and no PageHistory entity: every write of either kind was made by
\* a request of a matching name.
C19_InvalidNameWritesNothing ==
  /\ \A i \in 1..Len(puts) : ValidWikiName(puts[i].name)
  /\ \A i \in 1..Len(log) : ValidWikiName(log[i].name)
  /\ \A k \in 1..Len(pages) : ValidWikiName(pages[k].name)
  /\ \A k \in 1..Len(history) : ValidWikiName(history[k].name)

----------------------------------------------------------------------------

\* C20: a POST made with no user logged in is answered in the step it
\* arrives in, by a redirect to the login URL, and that step leaves the Page
\* entities, the history entities and both caches as they were; no request
\* under way is such a POST.
C20_LoggedOutPostChangesNothing ==
  /\ [](\A p \in Procs : req[p].method = "POST" => req[p].user # NoUser)
  /\ [][(response' # response /\ response'.method = "POST"
            /\ response'.user = NoUser)
          => /\ response'.rid = started + 1
             /\ response'.pc = "done"
             /\ response'.resp.status = 302
             /\ response'.resp.location = LoginUrl
             /\ pages' = pages
             /\ history' = history
             /\ pageCache' = pageCache
             /\ contentCache' = contentCache]_vars

\* a logged-out POST of a page that is stored and cached was answered
C20_Witness ==
  /\ response.method = "POST"
  /\ response.user = NoUser
  /\ response.resp.location = LoginUrl
  /\ Stored(response.page_name) # <<>>
  /\ pageCache[response.page_name] # None
  /\ Len(history) > 0
====
